---- MODULE Spec2Model ----
(***************************************************************************)
(* The Click: the game service (server/services/gameService.js) over the   *)
(* SQLite ledger (server/database.js).                                     *)
(*                                                                         *)
(* The ledger is one database file.  Every SQL statement, and every        *)
(* db.transaction(...) call, is atomic; what happens between two           *)
(* statements of one handler is not protected by anything in the code.     *)
(* The model therefore steps a handler statement by statement and lets     *)
(* the statements of different invocations interleave, which is what       *)
(* happens when several server processes are opened on the same database   *)
(* file.  A run in which each invocation takes all its steps without       *)
(* interruption is the behaviour of a single Node process.                 *)
(*                                                                         *)
(* Amounts are SQLite REAL values.  An amount is modelled as               *)
(* [d |-> whole units, f |-> fraction in 1/10000 units], which keeps one   *)
(* digit below the three decimals the code rounds to.                      *)
(*                                                                         *)
(* The client (src/contexts/GameContext.tsx, src/hooks/useShareableImage.ts *)
(* and src/components/ClickFeedback.tsx) is the page in one browser tab;   *)
(* it has a specification of its own at the end of the module.             *)
(***************************************************************************)
EXTENDS Integers, Naturals, Sequences, FiniteSets, TLC

VARIABLES
    clock,      \* the calendar day new Date().toISOString().split('T')[0] yields
    db,         \* the four tables of the database file
    click,      \* the handleClick invocations in flight: position and locals
    events,     \* the number of invocations and midnights so far
    returned,   \* the latest handleClick return: its arguments and its result
    tick,       \* performAutoIncrement: position, locals, latest result
    browser     \* the page in one browser tab: React state, closures, storage

vars == <<clock, db, click, events, returned, tick, browser>>

----------------------------------------------------------------------------
(* Bounds of the model *)

NumSlots  == 2      \* handleClick invocations in flight at a time
MaxEvents == 3      \* invocations of either handler, and midnights, in a run
MaxRandX  == 1      \* Math.floor(Math.random() * 1000) for x is in 0..MaxRandX
MaxRandY  == 0      \* Math.floor(Math.random() * 1000) for y is in 0..MaxRandY

Slots       == 1..NumSlots
Identifiers == {"A", "B"}
\* Math.round in place of Math.floor: 1000 can be drawn
RandX_rounded == (0..MaxRandX) \cup {1000}
RandX       == 0..MaxRandX
RandY       == 0..MaxRandY

----------------------------------------------------------------------------
(* Program constants *)

COORD_MIN   == 0
COORD_MAX   == 999
MAX_JACKPOT == 10000000
BASE_WHOLE  == 100                      \* baseAmount = 100.00
ROUND_SCALE == 1000                     \* Math.round(v * 1000) / 1000
FRAC_UNITS  == ROUND_SCALE * 10         \* 1/10000 units in one whole unit
ROUND_STEP  == FRAC_UNITS \div ROUND_SCALE   \* 0.001 in 1/10000 units
MISS_DELTA  == FRAC_UNITS \div 1000     \* + 0.001
AUTO_DELTA  == FRAC_UNITS \div 100      \* + 0.01

----------------------------------------------------------------------------
(* Amounts *)

Amount(d, f) == [d |-> d, f |-> f]

baseAmount == Amount(BASE_WHOLE, 0)

\* a + k/10000, k >= 0
AmountPlus(a, k) ==
    LET t == a.f + k
    IN  Amount(a.d + (t \div FRAC_UNITS), t % FRAC_UNITS)

\* Math.round(v * 1000) / 1000
Round3(a) ==
    LET m == (a.f + (ROUND_STEP \div 2)) \div ROUND_STEP
    IN  IF m * ROUND_STEP >= FRAC_UNITS
        THEN Amount(a.d + 1, 0)
        ELSE Amount(a.d, m * ROUND_STEP)

\* the range check without the ceiling
AmountOutOfRange_noCeiling(a) == a.d < 0

\* newAmount < 0 || newAmount > 10000000
AmountOutOfRange(a) ==
    \/ a.d < 0
    \/ a.d > MAX_JACKPOT
    \/ (a.d = MAX_JACKPOT /\ a.f > 0)

\* the amount in 1/10000 units (amounts far below 2^31 only)
AmountUnits(a) == a.d * FRAC_UNITS + a.f

----------------------------------------------------------------------------
(* Coordinates a caller can send: an integer, a non-integer number         *)
(* (v + 0.5), or something that is not a number.                           *)

IntCoord(v)  == [kind |-> "int",  v |-> v]
FracCoord(v) == [kind |-> "frac", v |-> v]
StrCoord     == [kind |-> "str",  v |-> 0]

\* the (x, y) pairs the callers of the model send
ClickPoints ==
    {<<IntCoord(x), IntCoord(y)>> : x \in RandX, y \in RandY}
    \cup {<<IntCoord(COORD_MAX), IntCoord(COORD_MIN)>>,
          <<IntCoord(COORD_MIN - 1), IntCoord(COORD_MIN)>>,
          <<IntCoord(COORD_MIN), IntCoord(COORD_MAX + 1)>>,
          <<FracCoord(0), IntCoord(COORD_MIN)>>,
          <<IntCoord(COORD_MIN), StrCoord>>}

\* the check without its upper bound
ValidCoordinate_noUpper(c) ==
    /\ c.kind # "str"
    /\ c.kind = "int"
    /\ ~(c.v < COORD_MIN)

\* the condition of the first if of handleClick, negated
ValidCoordinate(c) ==
    /\ c.kind # "str"
    /\ c.kind = "int"
    /\ ~(c.v < COORD_MIN)
    /\ ~(c.v > COORD_MAX)

ValidCoordinates(x, y) == ValidCoordinate(x) /\ ValidCoordinate(y)

----------------------------------------------------------------------------
(* Math.round(Math.sqrt(dx^2 + dy^2) * 1000) / 1000, in 1/1000 units       *)

RECURSIVE Isqrt(_)
Isqrt(n) ==
    IF n < 100
    THEN CHOOSE s \in 0..9 : s * s <= n /\ n < (s + 1) * (s + 1)
    ELSE LET p == 10 * Isqrt(n \div 100)
             x == CHOOSE z \in 0..9 :
                      /\ (p + z) * (p + z) <= n
                      /\ (z = 9 \/ n < (p + z + 1) * (p + z + 1))
         IN  p + x

\* one more decimal digit of a square root: from p = floor(sqrt(m)) and
\* r = m - p^2 to the same pair for 100 * m
SqrtDigit(pr) ==
    LET p == pr[1]
        r == pr[2] * 100
        x == CHOOSE z \in 0..9 :
                 /\ (20 * p + z) * z <= r
                 /\ (z = 9 \/ r < (20 * p + z + 1) * (z + 1))
    IN  <<10 * p + x, r - (20 * p + x) * x>>

\* the distance with the y difference taken for both terms
RoundedDistance_yTwice(tx, ty, x, y) ==
    LET d2   == (ty - y) * (ty - y) + (ty - y) * (ty - y)
        p0   == Isqrt(4 * d2)
        twoV == SqrtDigit(SqrtDigit(SqrtDigit(<<p0, 4 * d2 - p0 * p0>>)))[1]
    IN  (twoV + 1) \div 2

RoundedDistance(tx, ty, x, y) ==
    LET d2   == (tx - x) * (tx - x) + (ty - y) * (ty - y)
        p0   == Isqrt(4 * d2)
        twoV == SqrtDigit(SqrtDigit(SqrtDigit(<<p0, 4 * d2 - p0 * p0>>)))[1]
    IN  (twoV + 1) \div 2

----------------------------------------------------------------------------
(* server/database.js *)

SeqToSet(s) == {s[i] : i \in 1..Len(s)}

SYSTEM == "system"

\* the tables right after CREATE TABLE IF NOT EXISTS on a new file
EmptyDb ==
    [jackpot_state |-> <<>>, jackpot_history |-> <<>>,
     daily_target |-> <<>>, click_attempts |-> <<>>]

\* an initDb that writes the default jackpot row whether or not one is there
initDb_resetsJackpot(d, today, x, y) ==
    LET targetRow == {i \in 1..Len(d.daily_target) :
                         d.daily_target[i].target_date = today}
    IN  [d EXCEPT
           !.jackpot_state =
               <<[id |-> 1, current_amount |-> baseAmount,
                  last_modified_by |-> SYSTEM, version |-> 1]>>,
           !.daily_target =
               IF targetRow = {}
               THEN Append(@, [target_x |-> x, target_y |-> y,
                               target_date |-> today, version |-> 1])
               ELSE @]

\* initDb on the database file d: the jackpot row and today's target are
\* inserted when they are missing
initDb(d, today, x, y) ==
    LET jackpotRow == {i \in 1..Len(d.jackpot_state) : d.jackpot_state[i].id = 1}
        targetRow  == {i \in 1..Len(d.daily_target) :
                          d.daily_target[i].target_date = today}
    IN  [d EXCEPT
           !.jackpot_state =
               IF jackpotRow = {}
               THEN Append(@, [id |-> 1, current_amount |-> baseAmount,
                               last_modified_by |-> SYSTEM, version |-> 1])
               ELSE @,
           !.daily_target =
               IF targetRow = {}
               THEN Append(@, [target_x |-> x, target_y |-> y,
                               target_date |-> today, version |-> 1])
               ELSE @]

\* SELECT current_amount FROM jackpot_state WHERE id = 1
getJackpot(d) ==
    IF \E i \in 1..Len(d.jackpot_state) : d.jackpot_state[i].id = 1
    THEN (CHOOSE r \in SeqToSet(d.jackpot_state) : r.id = 1).current_amount
    ELSE Amount(0, 0)

\* A database call that can throw returns [ok, db]: ok is FALSE when it
\* threw or reported no change, db is the database after the statements
\* that ran.

\* updateJackpot without "version = version + 1" in its UPDATE
updateJackpot_noVersion(d, newAmount, userId) ==
    IF AmountOutOfRange(newAmount)
    THEN [ok |-> FALSE, db |-> d]
    ELSE [ok |-> \E i \in 1..Len(d.jackpot_state) : d.jackpot_state[i].id = 1,
          db |-> [d EXCEPT !.jackpot_state =
                    [i \in 1..Len(d.jackpot_state) |->
                        IF d.jackpot_state[i].id = 1
                        THEN [d.jackpot_state[i] EXCEPT
                                  !.current_amount = Round3(newAmount),
                                  !.last_modified_by = userId]
                        ELSE d.jackpot_state[i]]]]

\* UPDATE jackpot_state SET ..., version = version + 1 WHERE id = 1
updateJackpot(d, newAmount, userId) ==
    IF AmountOutOfRange(newAmount)
    THEN [ok |-> FALSE, db |-> d]
    ELSE LET roundedAmount == Round3(newAmount)
             changes == Cardinality({i \in 1..Len(d.jackpot_state) :
                                        d.jackpot_state[i].id = 1})
             rows == [i \in 1..Len(d.jackpot_state) |->
                        IF d.jackpot_state[i].id = 1
                        THEN [id |-> 1,
                              current_amount |-> roundedAmount,
                              last_modified_by |-> userId,
                              version |-> d.jackpot_state[i].version + 1]
                        ELSE d.jackpot_state[i]]
         IN  [ok |-> changes > 0,
              db |-> [d EXCEPT !.jackpot_state = rows]]

\* a reset attributed to "system" instead of the winner
resetJackpot_bySystem(d, amount, userId) == updateJackpot(d, amount, SYSTEM)

resetJackpot(d, amount, userId) == updateJackpot(d, amount, userId)

\* logJackpotHistory whose INSERT stores nothing
logJackpotHistory_noInsert(d, previousAmount, newAmount, actionType, userId) ==
    d

\* INSERT INTO jackpot_history (previous_amount, new_amount, action_type, user_id)
logJackpotHistory(d, previousAmount, newAmount, actionType, userId) ==
    [d EXCEPT !.jackpot_history =
        Append(@, [previous_amount |-> previousAmount,
                   new_amount |-> newAmount,
                   action_type |-> actionType,
                   user_id |-> userId])]

\* SELECT ... FROM daily_target WHERE target_date = ?
TargetRows(d, date) ==
    {i \in 1..Len(d.daily_target) : d.daily_target[i].target_date = date}

\* the INSERT on a daily_target table whose target_date is not UNIQUE
insertDailyTarget_noUnique(d, x, y, date) ==
    [ok |-> TRUE,
     db |-> [d EXCEPT !.daily_target =
               Append(@, [target_x |-> x, target_y |-> y,
                          target_date |-> date, version |-> 1])]]

\* INSERT INTO daily_target ... : target_date is UNIQUE
insertDailyTarget(d, x, y, date) ==
    IF TargetRows(d, date) # {}
    THEN [ok |-> FALSE, db |-> d]
    ELSE [ok |-> TRUE,
          db |-> [d EXCEPT !.daily_target =
                    Append(@, [target_x |-> x, target_y |-> y,
                               target_date |-> date, version |-> 1])]]

\* the upsert with "version = excluded.version" in its DO UPDATE
forceNewDailyTarget_excludedVersion(d, date, newX, newY) ==
    IF TargetRows(d, date) = {}
    THEN insertDailyTarget(d, newX, newY, date).db
    ELSE [d EXCEPT !.daily_target =
            [i \in 1..Len(d.daily_target) |->
                IF d.daily_target[i].target_date = date
                THEN [target_x |-> newX, target_y |-> newY,
                      target_date |-> date, version |-> 1]
                ELSE d.daily_target[i]]]

\* INSERT ... ON CONFLICT(target_date) DO UPDATE SET ... version + 1
forceNewDailyTarget(d, date, newX, newY) ==
    IF TargetRows(d, date) = {}
    THEN insertDailyTarget(d, newX, newY, date).db
    ELSE [d EXCEPT !.daily_target =
            [i \in 1..Len(d.daily_target) |->
                IF d.daily_target[i].target_date = date
                THEN [target_x |-> newX, target_y |-> newY,
                      target_date |-> date,
                      version |-> d.daily_target[i].version + 1]
                ELSE d.daily_target[i]]]

\* hasAttemptedToday comparing the date only with the latest attempt's
hasAttemptedToday_latestOnly(d, identifier, attempt_date) ==
    /\ Len(d.click_attempts) > 0
    /\ d.click_attempts[Len(d.click_attempts)].identifier = identifier
    /\ d.click_attempts[Len(d.click_attempts)].attempt_date = attempt_date

\* SELECT id FROM click_attempts WHERE identifier = ? AND attempt_date = ?
hasAttemptedToday(d, identifier, attempt_date) ==
    \E i \in 1..Len(d.click_attempts) :
        /\ d.click_attempts[i].identifier = identifier
        /\ d.click_attempts[i].attempt_date = attempt_date

\* recordClickAttempt on a table without the UNIQUE constraint
recordClickAttempt_noUnique(d, identifier, attempt_date) ==
    [ok |-> TRUE,
     db |-> [d EXCEPT !.click_attempts =
               Append(@, [identifier |-> identifier,
                          attempt_date |-> attempt_date])]]

\* INSERT INTO click_attempts ... : UNIQUE(identifier, attempt_date)
recordClickAttempt(d, identifier, attempt_date) ==
    IF \E i \in 1..Len(d.click_attempts) :
          /\ d.click_attempts[i].identifier = identifier
          /\ d.click_attempts[i].attempt_date = attempt_date
    THEN [ok |-> FALSE, db |-> d]
    ELSE [ok |-> TRUE,
          db |-> [d EXCEPT !.click_attempts =
                    Append(@, [identifier |-> identifier,
                               attempt_date |-> attempt_date])]]

\* the statements run one by one, with no transaction around them
transaction_noRollback(before, run) == run.db

\* db.transaction(fn)(): commit what fn did, or roll everything back when
\* fn threw.  run is fn's [ok, db] outcome, before is the database at BEGIN.
transaction(before, run) == IF run.ok THEN run.db ELSE before

----------------------------------------------------------------------------
(* server/services/gameService.js: handleClick *)

NoAmount == Amount(0 - 1, 0)
NoCoord  == IntCoord(0 - 1)
NoTarget == [x |-> 0 - 1, y |-> 0 - 1, date |-> 0]

NoResult ==
    [status |-> "none", type |-> "none", distance |-> 0 - 1,
     targetX |-> 0 - 1, targetY |-> 0 - 1,
     wonAmount |-> NoAmount, newBaseJackpotAmount |-> NoAmount,
     newJackpotAmount |-> NoAmount]

\* a catch block that reports every failure as an attempt_limit error
ErrorResult_attemptLimit(type) ==
    [NoResult EXCEPT !.status = "error", !.type = "attempt_limit"]

ErrorResult(type) == [NoResult EXCEPT !.status = "error", !.type = type]

\* the win result reporting the reset amount as the amount won
WinResult_wonIsBase(distance, targetPixel, wonAmount) ==
    [NoResult EXCEPT !.status = "success", !.type = "win",
                     !.distance = distance,
                     !.targetX = targetPixel.x, !.targetY = targetPixel.y,
                     !.wonAmount = baseAmount,
                     !.newBaseJackpotAmount = baseAmount]

\* lines 56-64: the object handleClick returns for a win
WinResult(distance, targetPixel, wonAmount) ==
    [NoResult EXCEPT !.status = "success", !.type = "win",
                     !.distance = distance,
                     !.targetX = targetPixel.x, !.targetY = targetPixel.y,
                     !.wonAmount = wonAmount,
                     !.newBaseJackpotAmount = baseAmount]

MissResult(distance, targetPixel, roundedNewJackpotAmount) ==
    [NoResult EXCEPT !.status = "success", !.type = "miss",
                     !.distance = distance,
                     !.targetX = targetPixel.x, !.targetY = targetPixel.y,
                     !.newJackpotAmount = roundedNewJackpotAmount]

IdleClick ==
    [pc |-> "idle", x |-> NoCoord, y |-> NoCoord, userIdentifier |-> "",
     today |-> 0, currentDate |-> 0, targetPixel |-> NoTarget,
     roundedDistance |-> 0 - 1, currentJackpotState |-> NoAmount]

\* what the caller of handleClick holds once it has returned
Returned(x, y, userIdentifier, today, result) ==
    [x |-> x, y |-> y, userIdentifier |-> userIdentifier, today |-> today,
     result |-> result]

NoReturn == Returned(NoCoord, NoCoord, "", 0, NoResult)

\* the invocation in slot c returns: its locals are gone
Return(c, result) ==
    /\ returned' = Returned(click[c].x, click[c].y, click[c].userIdentifier,
                            click[c].today, result)
    /\ click' = [click EXCEPT ![c] = IdleClick]

\* a pre-check that looks for an attempt of the identifier on any date
ClickStart_anyDate(c, x, y, userIdentifier) ==
    /\ click[c].pc = "idle"
    /\ \A b \in Slots : b < c => click[b].pc # "idle"
    /\ events < MaxEvents
    /\ events' = events + 1
    /\ IF ~ValidCoordinates(x, y)
       THEN /\ returned' = Returned(x, y, userIdentifier, 0,
                                    ErrorResult("validation"))
            /\ click' = click
       ELSE IF \E i \in 1..Len(db.click_attempts) :
                  db.click_attempts[i].identifier = userIdentifier
       THEN /\ returned' = Returned(x, y, userIdentifier, clock,
                                    ErrorResult("attempt_limit"))
            /\ click' = click
       ELSE /\ returned' = returned
            /\ click' = [click EXCEPT ![c] =
                    [IdleClick EXCEPT !.pc = "getTarget", !.x = x, !.y = y,
                                      !.userIdentifier = userIdentifier,
                                      !.today = clock]]
    /\ UNCHANGED <<clock, db, tick, browser>>

\* lines 17-33: validation, today, the attempt pre-check
ClickStart(c, x, y, userIdentifier) ==
    /\ click[c].pc = "idle"
    /\ \A b \in Slots : b < c => click[b].pc # "idle"
    /\ events < MaxEvents
    /\ events' = events + 1
    /\ IF ~ValidCoordinates(x, y)
       THEN /\ returned' = Returned(x, y, userIdentifier, 0,
                                    ErrorResult("validation"))
            /\ click' = click
       ELSE IF hasAttemptedToday(db, userIdentifier, clock)
       THEN /\ returned' = Returned(x, y, userIdentifier, clock,
                                    ErrorResult("attempt_limit"))
            /\ click' = click
       ELSE /\ returned' = returned
            /\ click' = [click EXCEPT ![c] =
                    [IdleClick EXCEPT !.pc = "getTarget", !.x = x, !.y = y,
                                      !.userIdentifier = userIdentifier,
                                      !.today = clock]]
    /\ UNCHANGED <<clock, db, tick, browser>>

\* a getOrCreateDailyTargetPixel that returns the row's y as x and x as y
ClickGetTarget_swapped(c) ==
    /\ click[c].pc = "getTarget"
    /\ LET rows == TargetRows(db, clock)
       IN  IF rows # {}
           THEN LET targetRow == db.daily_target[CHOOSE i \in rows : TRUE]
                IN  click' = [click EXCEPT ![c].pc = "getJackpot",
                                ![c].targetPixel =
                                    [x |-> targetRow.target_y,
                                     y |-> targetRow.target_x,
                                     date |-> targetRow.target_date]]
           ELSE click' = [click EXCEPT ![c].pc = "insertTarget",
                                       ![c].currentDate = clock]
    /\ UNCHANGED <<clock, db, events, returned, tick, browser>>

\* line 36, getOrCreateDailyTargetPixel: the SELECT
ClickGetTarget(c) ==
    /\ click[c].pc = "getTarget"
    /\ LET rows == TargetRows(db, clock)
       IN  IF rows # {}
           THEN LET targetRow == db.daily_target[CHOOSE i \in rows : TRUE]
                IN  click' = [click EXCEPT ![c].pc = "getJackpot",
                                ![c].targetPixel =
                                    [x |-> targetRow.target_x,
                                     y |-> targetRow.target_y,
                                     date |-> targetRow.target_date]]
           ELSE click' = [click EXCEPT ![c].pc = "insertTarget",
                                       ![c].currentDate = clock]
    /\ UNCHANGED <<clock, db, events, returned, tick, browser>>

\* line 36, getOrCreateDailyTargetPixel: the INSERT when the SELECT found
\* no row; a uniqueness violation is thrown into handleClick's catch
ClickInsertTarget(c, newX, newY) ==
    /\ click[c].pc = "insertTarget"
    /\ LET ins == insertDailyTarget(db, newX, newY, click[c].currentDate)
       IN  IF ins.ok
           THEN /\ db' = ins.db
                /\ click' = [click EXCEPT ![c].pc = "getJackpot",
                                ![c].targetPixel =
                                    [x |-> newX, y |-> newY,
                                     date |-> click[c].currentDate]]
                /\ returned' = returned
           ELSE /\ db' = db
                /\ Return(c, ErrorResult("server_error"))
    /\ UNCHANGED <<clock, events, tick, browser>>

\* lines 37-40: the distance, and the jackpot read before the transaction
ClickGetJackpot(c) ==
    /\ click[c].pc = "getJackpot"
    /\ click' = [click EXCEPT
            ![c].pc = "transaction",
            ![c].roundedDistance =
                RoundedDistance(click[c].targetPixel.x, click[c].targetPixel.y,
                                click[c].x.v, click[c].y.v),
            ![c].currentJackpotState = getJackpot(db)]
    /\ UNCHANGED <<clock, db, events, returned, tick, browser>>

\* a winTransaction that does not call forceNewDailyTarget
winTransactionBody_noRotation(d, userIdentifier, today, wonAmount, currentDate, newX, newY) ==
    LET reset == resetJackpot(d, baseAmount, userIdentifier)
    IN  IF ~reset.ok
        THEN reset
        ELSE recordClickAttempt(
                 logJackpotHistory(reset.db, wonAmount, baseAmount,
                                   "JACKPOT_WIN", userIdentifier),
                 userIdentifier, today)

\* lines 46-53: the body of winTransaction
winTransactionBody(d, userIdentifier, today, wonAmount, currentDate, newX, newY) ==
    LET reset == resetJackpot(d, baseAmount, userIdentifier)
    IN  IF ~reset.ok
        THEN reset
        ELSE LET logged  == logJackpotHistory(reset.db, wonAmount, baseAmount,
                                              "JACKPOT_WIN", userIdentifier)
                 rotated == forceNewDailyTarget(logged, currentDate, newX, newY)
             IN  recordClickAttempt(rotated, userIdentifier, today)

\* a missTransaction that also rotates the day's target
missTransactionBody_rotates(d, userIdentifier, today, previousAmount, roundedNewJackpotAmount) ==
    LET updated == updateJackpot(d, roundedNewJackpotAmount, userIdentifier)
    IN  IF ~updated.ok
        THEN updated
        ELSE recordClickAttempt(
                 forceNewDailyTarget(
                     logJackpotHistory(updated.db, previousAmount,
                                       roundedNewJackpotAmount,
                                       "INCREMENT", userIdentifier),
                     today, COORD_MIN, COORD_MIN),
                 userIdentifier, today)

\* lines 70-76: the body of missTransaction
missTransactionBody(d, userIdentifier, today, previousAmount, roundedNewJackpotAmount) ==
    LET updated == updateJackpot(d, roundedNewJackpotAmount, userIdentifier)
    IN  IF ~updated.ok
        THEN updated
        ELSE LET logged == logJackpotHistory(updated.db, previousAmount,
                                             roundedNewJackpotAmount,
                                             "INCREMENT", userIdentifier)
             IN  recordClickAttempt(logged, userIdentifier, today)

\* a win path whose statements run one by one, outside db.transaction
ClickWin_noTransaction(c, newX, newY) ==
    /\ click[c].pc = "transaction"
    /\ click[c].roundedDistance = 0
    /\ LET wonAmount == click[c].currentJackpotState
           run == winTransactionBody(db, click[c].userIdentifier,
                                     click[c].today, wonAmount,
                                     clock, newX, newY)
       IN  /\ db' = run.db
           /\ Return(c, IF run.ok
                         THEN WinResult(click[c].roundedDistance,
                                        click[c].targetPixel, wonAmount)
                         ELSE ErrorResult("server_error"))
    /\ UNCHANGED <<clock, events, tick, browser>>

\* lines 42-64 and 88-93: the win path
ClickWin(c, newX, newY) ==
    /\ click[c].pc = "transaction"
    /\ click[c].roundedDistance = 0
    /\ LET wonAmount == click[c].currentJackpotState
           run == winTransactionBody(db, click[c].userIdentifier,
                                     click[c].today, wonAmount,
                                     clock, newX, newY)
       IN  /\ db' = transaction(db, run)
           /\ Return(c, IF run.ok
                         THEN WinResult(click[c].roundedDistance,
                                        click[c].targetPixel, wonAmount)
                         ELSE ErrorResult("server_error"))
    /\ UNCHANGED <<clock, events, tick, browser>>

\* a miss path that reads the jackpot again and retries when its unit fails
ClickMiss_retryOnError(c) ==
    /\ click[c].pc = "transaction"
    /\ click[c].roundedDistance # 0
    /\ LET roundedNewJackpotAmount ==
               Round3(AmountPlus(click[c].currentJackpotState, MISS_DELTA))
           run == missTransactionBody(db, click[c].userIdentifier,
                                      click[c].today,
                                      click[c].currentJackpotState,
                                      roundedNewJackpotAmount)
       IN  /\ db' = transaction(db, run)
           /\ IF run.ok
              THEN Return(c, MissResult(click[c].roundedDistance,
                                        click[c].targetPixel,
                                        roundedNewJackpotAmount))
              ELSE /\ click' = [click EXCEPT ![c].pc = "getJackpot"]
                   /\ returned' = returned
    /\ UNCHANGED <<clock, events, tick, browser>>

\* lines 66-86 and 88-93: the miss path
ClickMiss(c) ==
    /\ click[c].pc = "transaction"
    /\ click[c].roundedDistance # 0
    /\ LET newJackpotAmount == AmountPlus(click[c].currentJackpotState, MISS_DELTA)
           roundedNewJackpotAmount == Round3(newJackpotAmount)
           run == missTransactionBody(db, click[c].userIdentifier,
                                      click[c].today,
                                      click[c].currentJackpotState,
                                      roundedNewJackpotAmount)
       IN  /\ db' = transaction(db, run)
           /\ Return(c, IF run.ok
                         THEN MissResult(click[c].roundedDistance,
                                         click[c].targetPixel,
                                         roundedNewJackpotAmount)
                         ELSE ErrorResult("server_error"))
    /\ UNCHANGED <<clock, events, tick, browser>>

----------------------------------------------------------------------------
(* server/services/gameService.js: performAutoIncrement *)

\* errors counts the failures performAutoIncrement has logged
IdleTick == [pc |-> "idle", currentJackpot |-> NoAmount, result |-> NoResult,
             errors |-> 0]

\* line 98: the jackpot read before the transaction
TickGetJackpot ==
    /\ tick.pc = "idle"
    /\ events < MaxEvents
    /\ events' = events + 1
    /\ tick' = [tick EXCEPT !.pc = "transaction",
                            !.currentJackpot = getJackpot(db)]
    /\ UNCHANGED <<clock, db, click, returned, browser>>

\* an autoIncrementTransaction that also records an attempt of "system"
autoIncrementTransactionBody_recordsAttempt(d, previousAmount, roundedAmount) ==
    LET updated == updateJackpot(d, roundedAmount, SYSTEM)
    IN  IF ~updated.ok
        THEN updated
        ELSE recordClickAttempt(
                 logJackpotHistory(updated.db, previousAmount, roundedAmount,
                                   "AUTO_INCREMENT", SYSTEM),
                 SYSTEM, 1)

\* lines 102-107: the body of autoIncrementTransaction
autoIncrementTransactionBody(d, previousAmount, roundedAmount) ==
    LET updated == updateJackpot(d, roundedAmount, SYSTEM)
    IN  IF ~updated.ok
        THEN updated
        ELSE [ok |-> TRUE,
              db |-> logJackpotHistory(updated.db, previousAmount,
                                       roundedAmount, "AUTO_INCREMENT", SYSTEM)]

\* a timer that is cleared when performAutoIncrement reports an error
TickTransaction_stopsOnError ==
    /\ tick.pc = "transaction"
    /\ LET roundedAmount == Round3(AmountPlus(tick.currentJackpot, AUTO_DELTA))
           run == autoIncrementTransactionBody(db, tick.currentJackpot,
                                               roundedAmount)
       IN  /\ db' = transaction(db, run)
           /\ tick' = [tick EXCEPT
                  !.pc = IF run.ok THEN "idle" ELSE "stopped",
                  !.currentJackpot = NoAmount,
                  !.result = IF run.ok
                             THEN [NoResult EXCEPT
                                     !.status = "success",
                                     !.newJackpotAmount = roundedAmount]
                             ELSE ErrorResult("server_error"),
                  !.errors = IF run.ok THEN @ ELSE @ + 1]
    /\ UNCHANGED <<clock, click, events, returned, browser>>

\* lines 99-115
TickTransaction ==
    /\ tick.pc = "transaction"
    /\ LET newAmount == AmountPlus(tick.currentJackpot, AUTO_DELTA)
           roundedAmount == Round3(newAmount)
           run == autoIncrementTransactionBody(db, tick.currentJackpot,
                                               roundedAmount)
       IN  /\ db' = transaction(db, run)
           /\ tick' = [tick EXCEPT
                  !.pc = "idle",
                  !.currentJackpot = NoAmount,
                  !.result = IF run.ok
                             THEN [NoResult EXCEPT
                                     !.status = "success",
                                     !.newJackpotAmount = roundedAmount]
                             ELSE ErrorResult("server_error"),
                  !.errors = IF run.ok THEN @ ELSE @ + 1]
    /\ UNCHANGED <<clock, click, events, returned, browser>>

----------------------------------------------------------------------------
(* The calendar *)

\* midnight (UTC) passes
AdvanceDay ==
    /\ events < MaxEvents
    /\ events' = events + 1
    /\ clock' = clock + 1
    /\ UNCHANGED <<db, click, returned, tick, browser>>

----------------------------------------------------------------------------

\* no page is open: the server is looked at on its own
NoPage == [loaded |-> FALSE]

Init ==
    /\ clock = 1
    /\ \E x \in RandX, y \in RandY : db = initDb(EmptyDb, 1, x, y)
    /\ click = [c \in Slots |-> IdleClick]
    /\ events = 0
    /\ returned = NoReturn
    /\ tick = IdleTick
    /\ browser = NoPage

Next ==
    \/ \E c \in Slots, p \in ClickPoints, u \in Identifiers :
           ClickStart(c, p[1], p[2], u)
    \/ \E c \in Slots : ClickGetTarget(c)
    \/ \E c \in Slots, newX \in RandX, newY \in RandY :
           ClickInsertTarget(c, newX, newY)
    \/ \E c \in Slots : ClickGetJackpot(c)
    \/ \E c \in Slots, newX \in RandX, newY \in RandY :
           ClickWin(c, newX, newY)
    \/ \E c \in Slots : ClickMiss(c)
    \/ TickGetJackpot
    \/ TickTransaction
    \/ AdvanceDay

Spec == Init /\ [][Next]_vars

----------------------------------------------------------------------------
(* The server started on the database file of a long earlier run.  initDb  *)
(* keeps the jackpot row it finds.  The row stands one miss below the      *)
(* ceiling, at 9,999,999.999, where ticks (999989999 of them) and misses   *)
(* (9) without a win take it.  The history, target and attempt rows of the *)
(* earlier days are left out: no statement reads the history, and the      *)
(* other two tables are only read for the current day.                     *)

OldAmount == Amount(MAX_JACKPOT - 1, FRAC_UNITS - MISS_DELTA)

\* the ticks and the misses that lead from 100.00 to OldAmount
OldTicks  == (OldAmount.d - BASE_WHOLE) * (FRAC_UNITS \div AUTO_DELTA)
             + (OldAmount.f \div AUTO_DELTA)
OldMisses == (OldAmount.f % AUTO_DELTA) \div MISS_DELTA

OldDb ==
    [EmptyDb EXCEPT !.jackpot_state =
        <<[id |-> 1,
           current_amount |-> OldAmount,
           last_modified_by |-> SYSTEM,
           version |-> 1 + OldTicks + OldMisses]>>]

InitCeiling ==
    /\ clock = 1
    /\ \E x \in RandX, y \in RandY : db = initDb(OldDb, 1, x, y)
    /\ click = [c \in Slots |-> IdleClick]
    /\ events = 0
    /\ returned = NoReturn
    /\ tick = IdleTick
    /\ browser = NoPage

SpecCeiling == InitCeiling /\ [][Next]_vars

----------------------------------------------------------------------------
(* One Node process: handleClick and performAutoIncrement are synchronous, *)
(* so an invocation starts only when no other is in flight.  Midnight can  *)
(* still pass while one runs.                                              *)

NoneInFlight == tick.pc = "idle" /\ \A c \in Slots : click[c].pc = "idle"

SerialClickStart(c, x, y, userIdentifier) ==
    NoneInFlight /\ ClickStart(c, x, y, userIdentifier)

SerialTickGetJackpot == NoneInFlight /\ TickGetJackpot

NextSerial ==
    \/ \E c \in Slots, p \in ClickPoints, u \in Identifiers :
           SerialClickStart(c, p[1], p[2], u)
    \/ \E c \in Slots : ClickGetTarget(c)
    \/ \E c \in Slots, newX \in RandX, newY \in RandY :
           ClickInsertTarget(c, newX, newY)
    \/ \E c \in Slots : ClickGetJackpot(c)
    \/ \E c \in Slots, newX \in RandX, newY \in RandY :
           ClickWin(c, newX, newY)
    \/ \E c \in Slots : ClickMiss(c)
    \/ SerialTickGetJackpot
    \/ TickTransaction
    \/ AdvanceDay

SpecSerial == Init /\ [][NextSerial]_vars

----------------------------------------------------------------------------
(* What a step did, read off the two states of the step *)

\* the invocation in slot c returns in this step
Returns(c) == click[c].pc # "idle" /\ click'[c].pc = "idle"

\* the invocation in slot c runs its transaction in this step
RunsTransaction(c) == click[c].pc = "transaction" /\ click'[c].pc = "idle"

\* a handleClick invocation starts in this step
Starts == events' = events + 1 /\ clock' = clock /\ tick'.pc = tick.pc

\* ... and returns from its first lines, without touching the ledger
StartsAndReturns == Starts /\ click' = click

\* a row of click_attempts for (identifier, date)
AttemptRows(d, identifier, date) ==
    {i \in 1..Len(d.click_attempts) :
        /\ d.click_attempts[i].identifier = identifier
        /\ d.click_attempts[i].attempt_date = date}

\* an integer in [0, 999]
IntegerInRange(c) == c.kind = "int" /\ c.v \in 0..999

HistoryCount(d, actionType) ==
    Cardinality({i \in 1..Len(d.jackpot_history) :
                    d.jackpot_history[i].action_type = actionType})

----------------------------------------------------------------------------
(* C1 *)

\* C1: in every reachable state there is at most one click_attempts row
\* for each (identifier, date) pair.
C1_AttemptUnique ==
    \A i, j \in 1..Len(db.click_attempts) :
        (/\ db.click_attempts[i].identifier = db.click_attempts[j].identifier
         /\ db.click_attempts[i].attempt_date = db.click_attempts[j].attempt_date)
        => i = j

\* two invocations of one identifier passed the pre-check on the same day,
\* one has committed and the other is about to run its transaction
C1_Witness ==
    \E c \in Slots :
        /\ click[c].pc = "transaction"
        /\ AttemptRows(db, click[c].userIdentifier, click[c].today) # {}

----------------------------------------------------------------------------
(* C2 *)

\* C2: when an invocation runs its transaction after another invocation of
\* the same identifier and day has committed (both passed the pre-check),
\* it is rejected with an error of type attempt_limit and changes nothing.
C2_LoserGetsAttemptLimit ==
    [][\A c \in Slots :
          (/\ RunsTransaction(c)
           /\ AttemptRows(db, click[c].userIdentifier, click[c].today) # {})
          => (/\ returned'.result.status = "error"
              /\ returned'.result.type = "attempt_limit"
              /\ db' = db)]_vars

----------------------------------------------------------------------------
(* C3 *)

\* C3 as stated: once (identifier, day) has an attempt row, every
\* invocation that starts for that identifier on that day returns
\* attempt_limit whatever its coordinates, and changes nothing.
C3_AnyCoordinates ==
    [][(/\ StartsAndReturns
        /\ AttemptRows(db, returned'.userIdentifier, clock) # {})
       => (/\ returned'.result.type = "attempt_limit"
           /\ db' = db)]_vars

\* C3 amended: once (identifier, day) has an attempt row, every invocation
\* with integer coordinates in [0, 999] that starts for that identifier on
\* that day returns attempt_limit from its first lines, even on the exact
\* target, and the ledger is unchanged.
C3_GatedSameDay ==
    [][Starts =>
        /\ \A c \in Slots :
              (click[c].pc = "idle" /\ click'[c].pc # "idle")
              => AttemptRows(db, click'[c].userIdentifier, clock) = {}
        /\ (/\ click' = click
            /\ IntegerInRange(returned'.x) /\ IntegerInRange(returned'.y)
            /\ AttemptRows(db, returned'.userIdentifier, clock) # {})
           => (/\ returned'.result.status = "error"
               /\ returned'.result.type = "attempt_limit"
               /\ returned'.today = clock
               /\ db' = db)]_vars

\* a click on the exact target of the day by an identifier that has already
\* attempted that day was rejected
C3_Witness ==
    /\ returned.result.type = "attempt_limit"
    /\ returned.today = clock
    /\ AttemptRows(db, returned.userIdentifier, clock) # {}
    /\ \E i \in TargetRows(db, clock) :
          /\ db.daily_target[i].target_x = returned.x.v
          /\ db.daily_target[i].target_y = returned.y.v

----------------------------------------------------------------------------
(* C4 *)

----------------------------------------------------------------------------
(* C5 *)

\* C5: as long as no win has been committed, the jackpot amount is the
\* initial 100.00 plus 0.001 for every committed miss plus 0.01 for every
\* committed tick, for any interleaving.
C5_NoLostUpdate ==
    HistoryCount(db, "JACKPOT_WIN") = 0
    => AmountUnits(getJackpot(db)) =
          AmountUnits(baseAmount)
          + MISS_DELTA * HistoryCount(db, "INCREMENT")
          + AUTO_DELTA * HistoryCount(db, "AUTO_INCREMENT")

----------------------------------------------------------------------------
(* C6 *)

\* C6: in every reachable state the first history entry starts from 100.00
\* and every later entry starts from the amount the entry before it ended
\* with.
C6_HistoryChained ==
    \A i \in 1..Len(db.jackpot_history) :
        db.jackpot_history[i].previous_amount =
            IF i = 1 THEN baseAmount
                     ELSE db.jackpot_history[i - 1].new_amount

----------------------------------------------------------------------------
(* C7 *)

\* C7: an invocation whose x or y is not an integer in [0, 999] returns a
\* validation error from its first lines and changes no table; only
\* invocations with both coordinates in range go any further.
C7_InvalidRejected ==
    [][Starts =>
        /\ \A c \in Slots :
              (click[c].pc = "idle" /\ click'[c].pc # "idle")
              => (IntegerInRange(click'[c].x) /\ IntegerInRange(click'[c].y))
        /\ (/\ click' = click
            /\ ~(IntegerInRange(returned'.x) /\ IntegerInRange(returned'.y)))
           => (/\ returned'.result = ErrorResult("validation")
               /\ db' = db)]_vars

\* a click with a coordinate out of range was rejected after the ledger
\* had been changed by others, and its identifier has no attempt
C7_Witness ==
    /\ returned.result.type = "validation"
    /\ ~(IntegerInRange(returned.x) /\ IntegerInRange(returned.y))
    /\ Len(db.jackpot_history) > 0
    /\ \A i \in 1..Len(db.click_attempts) :
          db.click_attempts[i].identifier # returned.userIdentifier

----------------------------------------------------------------------------
(* C8 *)

\* C8: the target a click reads is the stored target of the day, and an
\* accepted click is a win exactly when its (x, y) is that target; a win
\* has distance 0 and a miss a distance above 0.
C8_WinIffOnTarget ==
    [][\A c \in Slots :
        /\ (click[c].pc = "getTarget" /\ click'[c].pc = "getJackpot")
           => \E i \in TargetRows(db, clock) :
                 /\ click'[c].targetPixel.x = db.daily_target[i].target_x
                 /\ click'[c].targetPixel.y = db.daily_target[i].target_y
        /\ (RunsTransaction(c) /\ returned'.result.status = "success")
           => /\ returned'.result.type \in {"win", "miss"}
              /\ returned'.result.type = "win"
                 <=> (/\ click[c].x.v = click[c].targetPixel.x
                      /\ click[c].y.v = click[c].targetPixel.y)
              /\ returned'.result.type = "win"
                 <=> returned'.result.distance = 0
              /\ returned'.result.type = "miss"
                 <=> returned'.result.distance > 0
              /\ returned'.result.targetX = click[c].targetPixel.x
              /\ returned'.result.targetY = click[c].targetPixel.y]_vars

\* a click on the target has won after another click had missed
C8_Witness ==
    /\ returned.result.type = "win"
    /\ returned.x.v = returned.result.targetX
    /\ returned.y.v = returned.result.targetY
    /\ HistoryCount(db, "INCREMENT") > 0

----------------------------------------------------------------------------
(* C9 *)

\* C9: a win sets the jackpot to 100.00 in the winner's name, appends one
\* JACKPOT_WIN entry from the amount held just before the reset to 100.00,
\* returns that amount as wonAmount, raises the version of the day's target
\* by 1 and records the winner's attempt.
C9_WinEffects ==
    [][\A c \in Slots :
        (RunsTransaction(c) /\ returned'.result.type = "win")
        => /\ getJackpot(db') = baseAmount
           /\ \A i \in 1..Len(db'.jackpot_state) :
                 db'.jackpot_state[i].last_modified_by = click[c].userIdentifier
           /\ db'.jackpot_history =
                 Append(db.jackpot_history,
                        [previous_amount |-> getJackpot(db),
                         new_amount |-> baseAmount,
                         action_type |-> "JACKPOT_WIN",
                         user_id |-> click[c].userIdentifier])
           /\ returned'.result.wonAmount = getJackpot(db)
           /\ \A i \in TargetRows(db, click[c].today) :
                 db'.daily_target[i].version = db.daily_target[i].version + 1
           /\ AttemptRows(db', click[c].userIdentifier, click[c].today) # {}]_vars

----------------------------------------------------------------------------
(* C10 *)

\* C10: a miss sets the jackpot to the amount held just before it plus
\* 0.001, rounded to 3 decimals, appends one INCREMENT entry from that
\* amount to the new one, and returns the amount now stored.
C10_MissEffects ==
    [][\A c \in Slots :
        (RunsTransaction(c) /\ returned'.result.type = "miss")
        => /\ getJackpot(db') = Round3(AmountPlus(getJackpot(db), MISS_DELTA))
           /\ db'.jackpot_history =
                 Append(db.jackpot_history,
                        [previous_amount |-> getJackpot(db),
                         new_amount |-> getJackpot(db'),
                         action_type |-> "INCREMENT",
                         user_id |-> click[c].userIdentifier])
           /\ returned'.result.newJackpotAmount = getJackpot(db')]_vars

----------------------------------------------------------------------------
(* C11 *)

\* the tick's transaction commits in this step
TickCommits ==
    /\ tick.pc = "transaction"
    /\ tick'.pc = "idle"
    /\ tick'.result.status = "success"

\* the tick's transaction fails in this step
TickFails ==
    /\ tick.pc = "transaction"
    /\ tick'.pc = "idle"
    /\ tick'.result.status = "error"

\* C11: a successful tick sets the jackpot to the amount held just before
\* it plus 0.01, rounded to 3 decimals, and appends one AUTO_INCREMENT entry
\* of "system" from that amount to the new one, whatever clicks are
\* interleaved with it.
C11_TickEffects ==
    [][TickCommits
       => /\ getJackpot(db') = Round3(AmountPlus(getJackpot(db), AUTO_DELTA))
          /\ db'.jackpot_history =
                Append(db.jackpot_history,
                       [previous_amount |-> getJackpot(db),
                        new_amount |-> getJackpot(db'),
                        action_type |-> "AUTO_INCREMENT",
                        user_id |-> "system"])]_vars

----------------------------------------------------------------------------
(* C12 *)

\* a is at least 0 and at most 10,000,000
WithinCeiling(a) ==
    /\ a.d >= 0
    /\ a.f >= 0
    /\ a.d < 10000000 \/ (a.d = 10000000 /\ a.f = 0)

\* C12: in every reachable state the jackpot amount is at least 0 and at
\* most 10,000,000.
C12_AmountInRange ==
    \A i \in 1..Len(db.jackpot_state) :
        WithinCeiling(db.jackpot_state[i].current_amount)

\* the jackpot stands exactly at the ceiling after a miss took it there,
\* and an increment beyond it has been refused
C12_Witness ==
    /\ getJackpot(db) = Amount(10000000, 0)
    /\ HistoryCount(db, "INCREMENT") = 1
    /\ tick.errors > 0

----------------------------------------------------------------------------
(* C13 *)

\* the version column of the jackpot row
JackpotVersion(d) ==
    (CHOOSE r \in SeqToSet(d.jackpot_state) : r.id = 1).version

\* a click's unit committed: handleClick returns a win or a miss
ClickCommits ==
    \E c \in Slots : RunsTransaction(c) /\ returned'.result.status = "success"

\* C13: the version of the jackpot row never decreases; every committed
\* mutation (win reset, miss, tick) raises it by exactly 1, and every other
\* step, a rejected or aborted operation among them, leaves it as it was.
C13_VersionCounts ==
    [][IF ClickCommits \/ TickCommits
       THEN JackpotVersion(db') = JackpotVersion(db) + 1
       ELSE JackpotVersion(db') = JackpotVersion(db)]_vars

\* two committed mutations and an aborted tick: the version is two on
C13_Witness ==
    /\ tick.errors > 0
    /\ Len(db.jackpot_history) = 2
    /\ JackpotVersion(db) = JackpotVersion(OldDb) + 2

----------------------------------------------------------------------------
(* C14 *)

\* s is an initial part of t
IsPrefix(s, t) ==
    /\ Len(s) <= Len(t)
    /\ \A i \in 1..Len(s) : s[i] = t[i]

\* C14: the history is append-only with one entry per committed mutation:
\* a committed win, miss or tick adds exactly one entry at the end, any
\* other step adds none, no step changes or removes an entry, and the number
\* of entries is the jackpot version minus 1.
C14_HistoryAppendOnly ==
    [][/\ IsPrefix(db.jackpot_history, db'.jackpot_history)
       /\ Len(db'.jackpot_history) =
              Len(db.jackpot_history)
              + (IF ClickCommits \/ TickCommits THEN 1 ELSE 0)
       /\ Len(db.jackpot_history) = JackpotVersion(db) - 1
       /\ Len(db'.jackpot_history) = JackpotVersion(db') - 1]_vars

\* a miss, a tick and a win have been committed, in some order
C14_Witness ==
    /\ Len(db.jackpot_history) = 3
    /\ HistoryCount(db, "INCREMENT") = 1
    /\ HistoryCount(db, "AUTO_INCREMENT") = 1
    /\ HistoryCount(db, "JACKPOT_WIN") = 1

----------------------------------------------------------------------------
(* C15 *)

\* C15: the daily_target table never holds two rows for the same date,
\* however the SELECT and INSERT of getOrCreateDailyTargetPixel and the
\* upsert of forceNewDailyTarget of different invocations interleave.
C15_OneTargetPerDate ==
    \A i, j \in 1..Len(db.daily_target) :
        db.daily_target[i].target_date = db.daily_target[j].target_date
            => i = j

\* after midnight two invocations found no target for the new day; one
\* inserted it and the INSERT of the other was refused
C15_Witness ==
    /\ \E i \in 1..Len(db.daily_target) : db.daily_target[i].target_date = 2
    /\ returned.today = 2
    /\ returned.result.type = "server_error"
    /\ db.click_attempts = <<>>

----------------------------------------------------------------------------
(* C16 *)

\* the version of the target of a date, 0 when the date has no target
TargetVersion(d, date) ==
    IF \E r \in SeqToSet(d.daily_target) : r.target_date = date
    THEN (CHOOSE r \in SeqToSet(d.daily_target) : r.target_date = date).version
    ELSE 0

TargetDates(d) == {r.target_date : r \in SeqToSet(d.daily_target)}

\* a win commits in this step: its unit has run forceNewDailyTarget
WinCommits ==
    \E c \in Slots : RunsTransaction(c) /\ returned'.result.type = "win"

\* C16: a forced rotation, run on the date current when it runs, gives that
\* date a target of version 1 if it had none and raises the version of its
\* target by exactly 1 otherwise, so that k rotations of a target of
\* version v leave version v + k; it touches the target of no other date.
C16_RotationVersion ==
    [][WinCommits =>
          /\ TargetVersion(db', clock) = TargetVersion(db, clock) + 1
          /\ \A date \in (TargetDates(db) \cup TargetDates(db')) \ {clock} :
                 TargetVersion(db', date) = TargetVersion(db, date)]_vars

\* two forced rotations of the version-1 target of the first day
C16_Witness ==
    /\ TargetVersion(db, 1) = 3
    /\ HistoryCount(db, "JACKPOT_WIN") = 2

----------------------------------------------------------------------------
(* C17 *)

\* the ledger the scenario starts from: jackpot 100.00, nothing logged, the
\* first day's target at version 1, nobody has clicked
ScenarioStart(d) ==
    /\ d.jackpot_state = <<[id |-> 1, current_amount |-> Amount(100, 0),
                            last_modified_by |-> "system", version |-> 1]>>
    /\ d.jackpot_history = <<>>
    /\ Len(d.daily_target) = 1
    /\ d.daily_target[1].target_date = 1
    /\ d.daily_target[1].version = 1
    /\ d.click_attempts = <<>>

\* the ledger after A's miss: 100.001, one INCREMENT entry, A's attempt
ScenarioAfterMiss(d) ==
    /\ d.jackpot_state = <<[id |-> 1, current_amount |-> Amount(100, 10),
                            last_modified_by |-> "A", version |-> 2]>>
    /\ d.jackpot_history = <<[previous_amount |-> Amount(100, 0),
                              new_amount |-> Amount(100, 10),
                              action_type |-> "INCREMENT", user_id |-> "A"]>>
    /\ Len(d.daily_target) = 1
    /\ d.daily_target[1].target_date = 1
    /\ d.daily_target[1].version = 1
    /\ d.click_attempts = <<[identifier |-> "A", attempt_date |-> 1]>>

\* the invocation in slot c was sent the coordinates of the day's target
OnTarget(c, d) ==
    /\ click[c].x = IntCoord(d.daily_target[1].target_x)
    /\ click[c].y = IntCoord(d.daily_target[1].target_y)

\* C17: with one invocation at a time, from jackpot 100.00 and a version-1
\* target: (1) A's click off the target returns a miss and leaves 100.001
\* with exactly one INCREMENT entry; (2) A's next click that day, with
\* coordinates in range, returns attempt_limit and leaves the ledger as it
\* was, at 100.001; (3) B's click on the exact target then returns a win
\* with wonAmount 100.001, the jackpot is 100.00 and the target has
\* version 2.
C17_Scenario ==
    [][/\ \A c \in Slots :
            (/\ Returns(c) /\ ScenarioStart(db) /\ clock = 1
             /\ click[c].userIdentifier = "A" /\ ~OnTarget(c, db))
            => (/\ returned'.result.type = "miss"
                /\ returned'.result.newJackpotAmount = Amount(100, 10)
                /\ ScenarioAfterMiss(db')
                /\ HistoryCount(db', "INCREMENT") = 1)
       /\ (/\ Starts /\ ScenarioAfterMiss(db) /\ clock = 1
           /\ \/ \E c \in Slots : /\ click[c].pc = "idle"
                                  /\ click'[c].pc # "idle"
                                  /\ click'[c].userIdentifier = "A"
              \/ /\ click' = click
                 /\ returned'.userIdentifier = "A"
                 /\ IntegerInRange(returned'.x)
                 /\ IntegerInRange(returned'.y))
          => (/\ click' = click
              /\ returned'.result.status = "error"
              /\ returned'.result.type = "attempt_limit"
              /\ db' = db
              /\ getJackpot(db') = Amount(100, 10))
       /\ \A c \in Slots :
            (/\ Returns(c) /\ ScenarioAfterMiss(db) /\ clock = 1
             /\ click[c].userIdentifier = "B" /\ OnTarget(c, db))
            => (/\ returned'.result.status = "success"
                /\ returned'.result.type = "win"
                /\ returned'.result.wonAmount = Amount(100, 10)
                /\ getJackpot(db') = Amount(100, 0)
                /\ TargetVersion(db', 1) = 2)]_vars

\* the end of the scenario: three invocations on the first day, the last
\* of them B's win of 100.001 over A's logged miss
C17_Witness ==
    /\ events = 3 /\ clock = 1
    /\ returned.userIdentifier = "B"
    /\ returned.result.type = "win"
    /\ returned.result.wonAmount = Amount(100, 10)
    /\ Len(db.jackpot_history) = 2
    /\ db.jackpot_history[1].action_type = "INCREMENT"
    /\ db.jackpot_history[1].user_id = "A"
    /\ db.click_attempts = <<[identifier |-> "A", attempt_date |-> 1],
                             [identifier |-> "B", attempt_date |-> 1]>>
    /\ TargetVersion(db, 1) = 2

\* the middle of the scenario: A's second click was turned away
C17_Rejected ==
    /\ ScenarioAfterMiss(db)
    /\ returned.userIdentifier = "A"
    /\ returned.result.type = "attempt_limit"

----------------------------------------------------------------------------
(* C18 *)

\* the tick's invocation ends in this step, committed or not
TickEnds == tick.pc = "transaction" /\ tick'.pc # "transaction"

\* C18: a tick whose unit fails leaves the ledger exactly as it was and
\* leaves the schedule running: the timer is back where the next tick
\* starts from, and that tick is attempted.  A tick carries nothing over
\* from earlier ticks: it reads the jackpot from the ledger when it starts
\* and holds nothing when it has ended, so it commits whenever the amount
\* then in the ledger allows.
C18_TickFailureIsolated ==
    /\ [][/\ (TickEnds /\ tick'.result.status = "error")
              => (db' = db /\ tick'.pc = "idle")
          /\ TickEnds => tick'.currentJackpot = NoAmount
          /\ (tick.pc = "idle" /\ tick'.pc # "idle")
              => tick'.currentJackpot = getJackpot(db)]_vars
    /\ []((tick.pc # "transaction" /\ events < MaxEvents)
             => ENABLED TickGetJackpot)

\* a tick was refused at the ceiling, a win reset the jackpot, and the next
\* tick committed 100.01
C18_Witness ==
    /\ tick.errors > 0
    /\ tick.pc = "idle"
    /\ tick.result.status = "success"
    /\ HistoryCount(db, "AUTO_INCREMENT") = 1
    /\ getJackpot(db) = Amount(100, 100)

----------------------------------------------------------------------------
(* C19 *)

\* the jackpot row, the history and the attempts: what the units write
Ledger(d) == <<d.jackpot_state, d.jackpot_history, d.click_attempts>>

\* C19: an invocation of handleClick or performAutoIncrement runs its
\* unit once: the step that runs the unit ends the invocation, whether the
\* unit committed or failed, so a failed unit is not run again; the caller
\* gets an error exactly when the unit failed, and then nothing was written.
\* No other step of an invocation writes the jackpot, the history or the
\* attempts, and a committing step is one unit of one invocation: one
\* history entry, one version.
C19_OneUnitPerInvocation ==
    [][/\ \A c \in Slots :
            (click[c].pc = "transaction" /\ click'[c] # click[c])
            => (/\ click'[c].pc = "idle"
                /\ returned'.userIdentifier = click[c].userIdentifier
                /\ returned'.result.status \in {"success", "error"}
                /\ (returned'.result.status = "error") <=> (db' = db))
       /\ (tick.pc = "transaction" /\ tick' # tick)
            => (/\ tick'.pc = "idle"
                /\ tick'.result.status \in {"success", "error"}
                /\ (tick'.result.status = "error") <=> (db' = db)
                /\ tick'.errors =
                      tick.errors
                      + (IF tick'.result.status = "error" THEN 1 ELSE 0))
       /\ Ledger(db') # Ledger(db)
            => (/\ ClickCommits \/ TickCommits
                /\ ~(ClickCommits /\ TickCommits)
                /\ Cardinality({c \in Slots : Returns(c)})
                      = (IF ClickCommits THEN 1 ELSE 0)
                /\ Len(db'.jackpot_history) = Len(db.jackpot_history) + 1
                /\ JackpotVersion(db') = JackpotVersion(db) + 1)]_vars

\* a tick's unit and a click's unit have both failed, each
\* reported, and the ledger holds the single miss committed before them
C19_Witness ==
    /\ tick.errors > 0
    /\ tick.result.status = "error"
    /\ returned.result.type = "server_error"
    /\ returned.today = clock
    /\ Len(db.jackpot_history) = 1
    /\ db.jackpot_history[1].action_type = "INCREMENT"
    /\ getJackpot(db) = Amount(MAX_JACKPOT, 0)
    /\ \A c \in Slots : click[c].pc = "idle"

----------------------------------------------------------------------------
(* server/index.js: what the click handler sends for a result *)

\* a broadcast that would carry the target's x next to the amount
PublicMessages_withTarget(result) ==
    IF result.status # "success"
    THEN <<>>
    ELSE IF result.type = "win"
    THEN <<[event |-> "jackpot_update",
            amount |-> result.newBaseJackpotAmount,
            targetX |-> result.targetX],
           [event |-> "jackpot_won", amount |-> result.wonAmount,
            targetX |-> result.targetX]>>
    ELSE <<[event |-> "jackpot_update", amount |-> result.newJackpotAmount,
            targetX |-> result.targetX]>>

\* lines 94-99: ioInstance.emit, received by every connection (the
\* timestamp of jackpot_won, the time of sending, is left out)
PublicMessages(result) ==
    IF result.status # "success"
    THEN <<>>
    ELSE IF result.type = "win"
    THEN <<[event |-> "jackpot_update",
            amount |-> result.newBaseJackpotAmount],
           [event |-> "jackpot_won", amount |-> result.wonAmount]>>
    ELSE <<[event |-> "jackpot_update", amount |-> result.newJackpotAmount]>>

\* a click handler that sends nothing to the submitter of a failed click
SubmitterMessages_silentOnError(result) ==
    IF result.status = "success"
    THEN <<[event |-> "click_result", distance |-> result.distance,
            targetX |-> result.targetX, targetY |-> result.targetY,
            success |-> (result.type = "win")]>>
    ELSE <<>>

\* lines 86-92 and 100-102: socket.emit, received by the submitter only.
\* The message of an error is fixed by the type of the error.
SubmitterMessages(result) ==
    IF result.status = "success"
    THEN <<[event |-> "click_result", distance |-> result.distance,
            targetX |-> result.targetX, targetY |-> result.targetY,
            success |-> (result.type = "win")]>>
    ELSE <<[event |-> "error", message |-> result.type]>>

\* gameService.js lines 37-93 as a function of the target that
\* getOrCreateDailyTargetPixel returned: what the invocation inv, which has
\* read the jackpot, leaves in the database d and returns
UnitOutcome(d, inv, tx, ty, currentDate, newX, newY) ==
    LET targetPixel == [x |-> tx, y |-> ty, date |-> inv.targetPixel.date]
        roundedDistance == RoundedDistance(tx, ty, inv.x.v, inv.y.v)
        roundedNewJackpotAmount ==
            Round3(AmountPlus(inv.currentJackpotState, MISS_DELTA))
        run == IF roundedDistance = 0
               THEN winTransactionBody(d, inv.userIdentifier, inv.today,
                                       inv.currentJackpotState,
                                       currentDate, newX, newY)
               ELSE missTransactionBody(d, inv.userIdentifier, inv.today,
                                        inv.currentJackpotState,
                                        roundedNewJackpotAmount)
    IN  [db |-> transaction(d, run),
         result |-> IF ~run.ok
                    THEN ErrorResult("server_error")
                    ELSE IF roundedDistance = 0
                    THEN WinResult(roundedDistance, targetPixel,
                                   inv.currentJackpotState)
                    ELSE MissResult(roundedDistance, targetPixel,
                                    roundedNewJackpotAmount)]

----------------------------------------------------------------------------
(* C20 *)

\* the targets the day could have had instead
OtherTargets ==
    (RandX \X RandY) \cup {<<COORD_MAX, COORD_MIN>>}

\* what a connection none of whose clicks has been accepted gets out of an
\* outcome: the broadcasts, the error if the click was its own and failed,
\* and the jackpot, history and attempts, which fix what later invocations
\* broadcast
Observed(outcome) ==
    [public |-> PublicMessages(outcome.result),
     error  |-> IF outcome.result.status = "error"
                THEN SubmitterMessages(outcome.result)
                ELSE <<>>,
     ledger |-> Ledger(outcome.db)]

\* the outcome of the step that runs the unit of slot c
StepOutcome == [db |-> db', result |-> returned'.result]

\* the outcome the same step would have had, had the target been <<tx, ty>>
OutcomeFor(c, tx, ty) ==
    UnitOutcome(db, click[c], tx, ty, clock, COORD_MIN, COORD_MIN)

\* C20 as stated: whichever coordinates the target has, a connection that
\* has had no click accepted observes the same.
C20_SameForAnyTarget ==
    [][\A c \in Slots : RunsTransaction(c) =>
          \A t \in OtherTargets :
              Observed(OutcomeFor(c, t[1], t[2])) = Observed(StepOutcome)]_vars

\* on the target or off it, as the code decides it (distance 0)
Hits(tx, ty, inv) == tx = inv.x.v /\ ty = inv.y.v

\* C20, amended: the coordinates go to the submitter of an accepted click
\* only (click_result), and what a connection that has had no click
\* accepted observes depends on the target only through whether the click
\* being resolved is on it: it is the same for any two targets that the
\* click both hits or both misses.  Clicks rejected by validation or by the
\* attempt check return before the target is read.
C20_SameUpToHit ==
    [][/\ \A c \in Slots : RunsTransaction(c) =>
            /\ Observed(OutcomeFor(c, click[c].targetPixel.x,
                                      click[c].targetPixel.y))
                   = Observed(StepOutcome)
            /\ \A t \in OtherTargets :
                  (Hits(t[1], t[2], click[c])
                      <=> Hits(click[c].targetPixel.x,
                               click[c].targetPixel.y, click[c]))
                  => Observed(OutcomeFor(c, t[1], t[2]))
                        = Observed(StepOutcome)
            /\ returned'.result.status = "success"
                  => /\ SubmitterMessages(returned'.result)[1].targetX
                          = click[c].targetPixel.x
                     /\ SubmitterMessages(returned'.result)[1].targetY
                          = click[c].targetPixel.y
       /\ StartsAndReturns =>
            /\ PublicMessages(returned'.result) = <<>>
            /\ SubmitterMessages(returned'.result)
                  \in {<<[event |-> "error", message |-> "validation"]>>,
                       <<[event |-> "error", message |-> "attempt_limit"]>>}]_vars

\* a miss was refused at the ceiling: its submitter, with no click
\* accepted, was sent an error that a click on the target would not get
C20_Witness ==
    /\ returned.result.type = "server_error"
    /\ returned.today = clock
    /\ AttemptRows(db, returned.userIdentifier, clock) = {}
    /\ getJackpot(db) = Amount(MAX_JACKPOT, 0)
    /\ tick.errors = 0
    /\ \A i \in TargetRows(db, clock) :
          ~(/\ db.daily_target[i].target_x = returned.x.v
            /\ db.daily_target[i].target_y = returned.y.v)

----------------------------------------------------------------------------
(* C21 *)

\* the coordinates of the target of a date that has one
TargetCoords(d, date) ==
    LET r == CHOOSE r \in SeqToSet(d.daily_target) : r.target_date = date
    IN  <<r.target_x, r.target_y>>

\* a win commits on a date that has a target: the target is rotated
RotatesExisting == WinCommits /\ TargetVersion(db, clock) > 0

----------------------------------------------------------------------------
(* C22 *)

\* the invocation in slot c holds what getOrCreateDailyTargetPixel returned
HoldsTarget(c) == click[c].pc \in {"getJackpot", "transaction"}

\* C22: getOrCreateDailyTargetPixel returns the stored (x, y, date) of the
\* date when it has a target and writes nothing; when it has none, the
\* INSERT stores the drawn target at version 1 and that target is returned
\* (and an INSERT that finds a row meanwhile is refused and writes nothing).
\* No step but a forced rotation changes the coordinates or the version of
\* a stored target, so all calls on a date whose target has not been
\* rotated return the same (x, y, date).
C22_GetOrCreate ==
    /\ [][/\ \A c \in Slots :
                /\ (click[c].pc = "getTarget" /\ click'[c] # click[c])
                     => /\ db' = db
                        /\ TargetVersion(db, clock) > 0
                             => /\ click'[c].pc = "getJackpot"
                                /\ click'[c].targetPixel =
                                      [x |-> TargetCoords(db, clock)[1],
                                       y |-> TargetCoords(db, clock)[2],
                                       date |-> clock]
                /\ (click[c].pc = "insertTarget" /\ click'[c] # click[c])
                     => IF TargetVersion(db, click[c].currentDate) = 0
                        THEN /\ db' = [db EXCEPT !.daily_target =
                                         Append(@,
                                           [target_x |-> click'[c].targetPixel.x,
                                            target_y |-> click'[c].targetPixel.y,
                                            target_date |-> click[c].currentDate,
                                            version |-> 1])]
                             /\ click'[c].targetPixel.date = click[c].currentDate
                             /\ click'[c].pc = "getJackpot"
                        ELSE db' = db /\ click'[c].pc = "idle"
          /\ ~WinCommits =>
                \A date \in TargetDates(db) :
                    /\ TargetVersion(db', date) = TargetVersion(db, date)
                    /\ TargetCoords(db', date) = TargetCoords(db, date)]_vars
    /\ [](\A c \in Slots :
             (HoldsTarget(c) /\ TargetVersion(db, click[c].targetPixel.date) = 1)
             => <<click[c].targetPixel.x, click[c].targetPixel.y>>
                   = TargetCoords(db, click[c].targetPixel.date))

\* after midnight one call has created the new day's target at version 1
\* and another call has been returned the same target
C22_Witness ==
    /\ clock = 2
    /\ TargetVersion(db, 2) = 1
    /\ \A c \in Slots :
          /\ HoldsTarget(c)
          /\ click[c].targetPixel.date = 2
          /\ <<click[c].targetPixel.x, click[c].targetPixel.y>>
                = TargetCoords(db, 2)

----------------------------------------------------------------------------
(* C23 *)

\* C23: every stored target has integer coordinates in [0, 999] and a
\* version of at least 1, whether initDb, the INSERT of
\* getOrCreateDailyTargetPixel or the upsert of forceNewDailyTarget wrote it.
C23_TargetWellFormed ==
    \A i \in 1..Len(db.daily_target) :
        /\ db.daily_target[i].target_x \in 0..999
        /\ db.daily_target[i].target_y \in 0..999
        /\ db.daily_target[i].version \in Nat
        /\ db.daily_target[i].version >= 1

\* the first day's target, created by initDb, has been rotated by a win,
\* and the second day's target has been created by the first call of the day
C23_Witness ==
    /\ Len(db.daily_target) = 2
    /\ TargetVersion(db, 1) = 2
    /\ TargetVersion(db, 2) = 1
    /\ \E c \in Slots : HoldsTarget(c) /\ click[c].targetPixel.date = 2

----------------------------------------------------------------------------
(* C24 *)

\* the dates a run can reach
Dates == 1..(MaxEvents + 1)

\* C24: the click_attempts table holds exactly the attempts that committed
\* units have recorded, a row per accepted click with its identifier and
\* its date; hasAttemptedToday(i, d) is true exactly when the table has a
\* row for (i, d); and a click is turned away with attempt_limit only when
\* its own identifier has a row for the current date, so that an attempt
\* blocks neither another identifier nor the same identifier on another
\* date.
C24_GateKey ==
    /\ [](\A i \in Identifiers, d \in Dates :
             hasAttemptedToday(db, i, d) <=> AttemptRows(db, i, d) # {})
    /\ [][/\ IF ClickCommits
             THEN db'.click_attempts =
                      Append(db.click_attempts,
                             [identifier |-> returned'.userIdentifier,
                              attempt_date |-> returned'.today])
             ELSE db'.click_attempts = db.click_attempts
          /\ Starts =>
                /\ (click' = click /\ returned'.result.type = "attempt_limit")
                     => AttemptRows(db, returned'.userIdentifier, clock) # {}
                /\ (/\ click' = click
                    /\ IntegerInRange(returned'.x)
                    /\ IntegerInRange(returned'.y))
                     => /\ returned'.result.type = "attempt_limit"
                        /\ AttemptRows(db, returned'.userIdentifier, clock) # {}
                /\ \A c \in Slots :
                      (click[c].pc = "idle" /\ click'[c].pc # "idle")
                      => AttemptRows(db, click'[c].userIdentifier, clock) = {}]_vars

\* an identifier that attempted on the first day has a click under way on
\* the second
C24_Witness ==
    /\ clock = 2
    /\ \E c \in Slots :
          /\ click[c].pc # "idle"
          /\ click[c].today = 2
          /\ AttemptRows(db, click[c].userIdentifier, 1) # {}
          /\ AttemptRows(db, click[c].userIdentifier, 2) = {}

----------------------------------------------------------------------------
(* server/index.js: a server started on the database file in use *)

\* a server start that recreates the jackpot row at the default amount
Restart_recreatesJackpot(x, y) ==
    /\ events < MaxEvents
    /\ events' = events + 1
    /\ db' = initDb([db EXCEPT !.jackpot_state = <<>>], clock, x, y)
    /\ UNCHANGED <<clock, click, returned, tick, browser>>

\* line 45: configureAndStartServer awaits initDb(dbPathToUse); the
\* invocations under way in the processes already running go on
Restart(x, y) ==
    /\ events < MaxEvents
    /\ events' = events + 1
    /\ db' = initDb(db, clock, x, y)
    /\ UNCHANGED <<clock, click, returned, tick, browser>>

NextRestart ==
    \/ \E c \in Slots, p \in ClickPoints, u \in Identifiers :
           ClickStart(c, p[1], p[2], u)
    \/ \E c \in Slots : ClickGetTarget(c)
    \/ \E c \in Slots, newX \in RandX, newY \in RandY :
           ClickInsertTarget(c, newX, newY)
    \/ \E c \in Slots : ClickGetJackpot(c)
    \/ \E c \in Slots, newX \in RandX, newY \in RandY :
           ClickWin(c, newX, newY)
    \/ \E c \in Slots : ClickMiss(c)
    \/ TickGetJackpot
    \/ TickTransaction
    \/ AdvanceDay
    \/ \E x \in RandX, y \in RandY : Restart(x, y)

SpecRestart == Init /\ [][NextRestart]_vars

----------------------------------------------------------------------------
(* C25 *)

\* initDb runs in this step, or a click is rejected from handleClick's
\* first lines exactly as the click before it was
Restarts ==
    /\ events' = events + 1
    /\ clock' = clock
    /\ click' = click /\ tick' = tick /\ returned' = returned

\* the last invocation to return was not rejected from the first lines: a
\* step that Restarts is then a run of initDb
NotRejected == returned.result.type \notin {"validation", "attempt_limit"}

\* C25: the store holds exactly one jackpot record in every state: it is
\* created by the first initDb with amount 100.00 and version 1 and no step
\* removes it or adds another.  initDb on a store that holds it leaves the
\* jackpot record, the history and the attempts as they are, leaves every
\* stored target as it is, and adds a target only when today has none.
C25_InitDbKeeps ==
    /\ [](/\ Len(db.jackpot_state) = 1
          /\ db.jackpot_state[1].id = 1
          /\ events = 0 =>
               /\ db.jackpot_state[1].current_amount = Amount(100, 0)
               /\ db.jackpot_state[1].version = 1)
    /\ [][Restarts =>
            /\ Ledger(db') = Ledger(db)
            /\ IsPrefix(db.daily_target, db'.daily_target)
            /\ IF TargetVersion(db, clock) > 0
               THEN db' = db
               ELSE NotRejected =>
                       /\ Len(db'.daily_target) = Len(db.daily_target) + 1
                       /\ TargetVersion(db', clock) = 1]_vars

\* a tick has been committed, midnight has passed and initDb has run
\* again: it has added the new day's target (no click has run that could
\* have) and the jackpot is still the tick's 100.01 at version 2
C25_Witness ==
    /\ clock = 2
    /\ TargetVersion(db, 2) = 1
    /\ returned = NoReturn
    /\ \A c \in Slots : click[c].pc = "idle"
    /\ getJackpot(db) = Amount(100, 100)
    /\ JackpotVersion(db) = 2
    /\ Len(db.jackpot_history) = 1

----------------------------------------------------------------------------
(* C26 *)

\* C26: a tick never goes through the attempt gate.  The step that runs its
\* unit, committed or failed, leaves the attempts and every stored target
\* as they are, and the step that starts it writes nothing; and whether the
\* unit commits does not depend on the attempts: it commits exactly when the
\* amount it computed is within the jackpot's range.
C26_TickOutsideGate ==
    [][/\ (tick.pc = "idle" /\ tick'.pc # "idle") => db' = db
       /\ TickEnds =>
            /\ db'.click_attempts = db.click_attempts
            /\ db'.daily_target = db.daily_target
            /\ TickCommits
                 <=> WithinCeiling(AmountPlus(tick.currentJackpot, AUTO_DELTA))]_vars

\* a tick has committed on a day on which both identifiers had attempted
C26_Witness ==
    /\ tick.pc = "idle"
    /\ tick.result.status = "success"
    /\ Len(db.jackpot_history) = 3
    /\ db.jackpot_history[3].action_type = "AUTO_INCREMENT"
    /\ \A i \in Identifiers : AttemptRows(db, i, clock) # {}

----------------------------------------------------------------------------
(* C27 *)

----------------------------------------------------------------------------
(* C28 *)

\* C28: in every state each AUTO_INCREMENT entry of the history has the
\* actor "system", each INCREMENT or JACKPOT_WIN entry has as actor an
\* identifier with a recorded attempt, and, once a mutation has been
\* committed, the jackpot's last_modified_by is the actor of the last entry.
C28_Attribution ==
    /\ \A i \in 1..Len(db.jackpot_history) :
          LET entry == db.jackpot_history[i]
          IN  /\ entry.action_type \in {"AUTO_INCREMENT", "INCREMENT", "JACKPOT_WIN"}
              /\ entry.action_type = "AUTO_INCREMENT" => entry.user_id = "system"
              /\ entry.action_type \in {"INCREMENT", "JACKPOT_WIN"}
                   => \E j \in 1..Len(db.click_attempts) :
                          db.click_attempts[j].identifier = entry.user_id
    /\ Len(db.jackpot_history) > 0
         => \A k \in 1..Len(db.jackpot_state) :
                db.jackpot_state[k].last_modified_by
                   = db.jackpot_history[Len(db.jackpot_history)].user_id

\* a tick, a miss and a win have been committed, the win last: the jackpot
\* was last modified by the winner
C28_Witness ==
    /\ Len(db.jackpot_history) = 3
    /\ db.jackpot_history[1].action_type = "AUTO_INCREMENT"
    /\ db.jackpot_history[2].action_type = "INCREMENT"
    /\ db.jackpot_history[3].action_type = "JACKPOT_WIN"
    /\ db.jackpot_history[2].user_id # db.jackpot_history[3].user_id
    /\ db.jackpot_state[1].last_modified_by = db.jackpot_history[3].user_id

----------------------------------------------------------------------------
(* C29 *)

\* handleClick returns in this step, from its first lines or later
ClickReturns ==
    \/ \E c \in Slots : Returns(c)
    \/ StartsAndReturns /\ returned'.result.status = "error"

\* C29: when handleClick returns a miss, one jackpot_update carrying the
\* amount just committed is broadcast; when it returns a win, one
\* jackpot_update carrying 100.00 and one jackpot_won carrying wonAmount are
\* broadcast; in both cases the submitter is sent one click_result.  When it
\* returns an error (validation, attempt_limit, server_error) nothing is
\* broadcast and the submitter is sent one error.
C29_Emissions ==
    [][ClickReturns =>
         LET result == returned'.result
         IN  /\ result.status \in {"success", "error"}
             /\ result.type = "miss" =>
                  /\ PublicMessages(result)
                       = <<[event |-> "jackpot_update",
                            amount |-> getJackpot(db')]>>
                  /\ Len(SubmitterMessages(result)) = 1
                  /\ SubmitterMessages(result)[1].event = "click_result"
                  /\ SubmitterMessages(result)[1].success = FALSE
             /\ result.type = "win" =>
                  /\ PublicMessages(result)
                       = <<[event |-> "jackpot_update",
                            amount |-> Amount(100, 0)],
                           [event |-> "jackpot_won",
                            amount |-> result.wonAmount]>>
                  /\ getJackpot(db') = Amount(100, 0)
                  /\ Len(SubmitterMessages(result)) = 1
                  /\ SubmitterMessages(result)[1].event = "click_result"
                  /\ SubmitterMessages(result)[1].success = TRUE
             /\ result.status = "error" =>
                  /\ result.type \in {"validation", "attempt_limit",
                                      "server_error"}
                  /\ PublicMessages(result) = <<>>
                  /\ Len(SubmitterMessages(result)) = 1
                  /\ SubmitterMessages(result)[1].event = "error"]_vars

\* a win of the jackpot one miss below the ceiling has been broadcast
C29_Witness ==
    /\ returned.result.type = "win"
    /\ returned.result.wonAmount = OldAmount
    /\ Len(PublicMessages(returned.result)) = 2
    /\ PublicMessages(returned.result)[2].amount = OldAmount
    /\ getJackpot(db) = PublicMessages(returned.result)[1].amount

----------------------------------------------------------------------------
(* server/index.js: what the timer broadcasts for a tick's result *)

\* a timer that logs the result and broadcasts nothing
TickMessages_silent(result) == <<>>

\* lines 126-131: ioInstance.emit on success, console.error otherwise
TickMessages(result) ==
    IF result.status = "success"
    THEN <<[event |-> "jackpot_update", amount |-> result.newJackpotAmount]>>
    ELSE <<>>

----------------------------------------------------------------------------
(* C30 *)

\* what the step broadcasts: a handler emits in the synchronous call in
\* which its unit has committed, before any other handler runs
Broadcast ==
    IF ClickReturns THEN PublicMessages(returned'.result)
    ELSE IF TickEnds THEN TickMessages(tick'.result)
    ELSE <<>>

\* the amounts of the jackpot_update messages among msgs, in order
UpdateAmounts(msgs) ==
    [i \in 1..Len(SelectSeq(msgs, LAMBDA m : m.event = "jackpot_update")) |->
        SelectSeq(msgs, LAMBDA m : m.event = "jackpot_update")[i].amount]

\* C30: the subscribers' view follows the ledger.  A step that changes the
\* jackpot amount or commits a unit broadcasts exactly one jackpot_update,
\* carrying the ledger's amount after the step; any other step broadcasts
\* no jackpot_update and leaves the amount as it is.  So the amount of the
\* most recent jackpot_update is the ledger's amount whenever no handler is
\* running, broadcasts following the order of the commits.
C30_ViewFollowsLedger ==
    [][IF ClickCommits \/ TickCommits \/ getJackpot(db') # getJackpot(db)
       THEN UpdateAmounts(Broadcast) = <<getJackpot(db')>>
       ELSE UpdateAmounts(Broadcast) = <<>>]_vars

\* a miss and then a tick have been committed and broadcast, and no handler
\* is running: the last jackpot_update carried the ledger's amount
C30_Witness ==
    /\ NoneInFlight
    /\ returned.result.type = "miss"
    /\ tick.result.status = "success"
    /\ Len(db.jackpot_history) = 2
    /\ db.jackpot_history[2].action_type = "AUTO_INCREMENT"
    /\ UpdateAmounts(TickMessages(tick.result)) = <<getJackpot(db)>>
    /\ getJackpot(db) = Amount(100, 110)

----------------------------------------------------------------------------
(* C31 *)

\* the history entries written by handleClick
ClickEntries(d) == HistoryCount(d, "INCREMENT") + HistoryCount(d, "JACKPOT_WIN")

\* C31: in every reachable state of a store that started empty, the number
\* of click_attempts rows equals the number of INCREMENT plus JACKPOT_WIN
\* history entries: an accepted click records one attempt, and no attempt
\* is recorded without its history entry.
C31_AttemptsMatchHistory ==
    Len(db.click_attempts) = ClickEntries(db)

\* a win, a miss and a tick have committed: two attempts, two click entries
\* and one AUTO_INCREMENT entry
C31_Witness ==
    /\ Len(db.click_attempts) = 2
    /\ HistoryCount(db, "JACKPOT_WIN") = 1
    /\ HistoryCount(db, "INCREMENT") = 1
    /\ HistoryCount(db, "AUTO_INCREMENT") = 1

----------------------------------------------------------------------------
(* C32 *)

\* the last row of jackpot_history
LastEntry(d) == d.jackpot_history[Len(d.jackpot_history)]

\* C32: in every reachable state with a non-empty history, the new_amount
\* of the last history entry is the jackpot's current amount, whatever the
\* interleaving of clicks, ticks and server starts.
C32_LastEntryIsAmount ==
    Len(db.jackpot_history) > 0 => LastEntry(db).new_amount = getJackpot(db)

\* a miss and then a tick have committed and nothing is under way: the
\* last entry is the tick's and carries 100.011, the jackpot's amount
C32_Witness ==
    /\ Len(db.jackpot_history) = 2
    /\ db.jackpot_history[1].action_type = "INCREMENT"
    /\ LastEntry(db).action_type = "AUTO_INCREMENT"
    /\ LastEntry(db).new_amount = Amount(BASE_WHOLE, MISS_DELTA + AUTO_DELTA)
    /\ getJackpot(db) = Amount(BASE_WHOLE, MISS_DELTA + AUTO_DELTA)
    /\ NoneInFlight

----------------------------------------------------------------------------
(* C33 *)

\* the amount read by an invocation, plus delta, is above the ceiling
WouldExceed(amount, delta) == AmountOutOfRange(Round3(AmountPlus(amount, delta)))

\* the result is the generic server error
ServerError(result) == result.status = "error" /\ result.type = "server_error"

\* C33: when the jackpot amount an invocation read, plus its delta, is above
\* the 10,000,000 ceiling, a miss or a tick ends with the generic server
\* error and leaves the jackpot row (amount and version), the history, the
\* targets and the attempts as they were; the click's attempt is not
\* recorded, so the identifier is gated for that day after the failure only
\* if it was before.
C33_CeilingRefusal ==
    [][/\ \A c \in Slots :
            (/\ click[c].pc = "transaction"
             /\ click'[c] # click[c]
             /\ click[c].roundedDistance # 0
             /\ WouldExceed(click[c].currentJackpotState, MISS_DELTA))
            => (/\ ServerError(returned'.result)
                /\ returned'.userIdentifier = click[c].userIdentifier
                /\ db'.jackpot_state = db.jackpot_state
                /\ db'.jackpot_history = db.jackpot_history
                /\ db'.daily_target = db.daily_target
                /\ db'.click_attempts = db.click_attempts
                /\ hasAttemptedToday(db', click[c].userIdentifier,
                                     click[c].today)
                      <=> hasAttemptedToday(db, click[c].userIdentifier,
                                            click[c].today))
       /\ (/\ tick.pc = "transaction"
           /\ tick' # tick
           /\ WouldExceed(tick.currentJackpot, AUTO_DELTA))
            => (/\ ServerError(tick'.result)
                /\ db' = db)]_vars

\* at 10,000,000.000 a miss and a tick have both been refused; the
\* identifier of the refused click has no attempt for the day, so its next
\* click passes the gate
C33_Witness ==
    /\ getJackpot(db) = Amount(MAX_JACKPOT, 0)
    /\ NoneInFlight
    /\ ServerError(returned.result)
    /\ returned.today = clock
    /\ ~hasAttemptedToday(db, returned.userIdentifier, clock)
    /\ ServerError(tick.result)
    /\ tick.errors > 0

----------------------------------------------------------------------------
(* C34 *)

\* C34: within one handleClick call the date of the attempt-gate check and
\* of the attempt record (today) is the date of the target the call read
\* and, on a win, the date of the target it rotated, even when midnight
\* passes while the call is in progress.
C34_OneDatePerCall ==
    /\ [](\A c \in Slots :
             HoldsTarget(c) => click[c].targetPixel.date = click[c].today)
    /\ [][\A c \in Slots :
             (RunsTransaction(c) /\ returned'.result.type = "win")
             => (/\ AttemptRows(db', click[c].userIdentifier,
                                click[c].today) # {}
                 /\ \A date \in Dates \ {click[c].today} :
                       /\ TargetVersion(db', date) = TargetVersion(db, date)
                       /\ TargetCoords(db', date) = TargetCoords(db, date))]_vars

----------------------------------------------------------------------------
(* The client: GameProvider (src/contexts/GameContext.tsx), the hook       *)
(* useShareableImage (src/hooks/useShareableImage.ts) and ClickFeedback    *)
(* (src/components/ClickFeedback.tsx), in one browser tab.                 *)
(*                                                                         *)
(* React state is what the setters have stored; a function created in a    *)
(* render sees the state of that render.  useCallback(fn, deps) keeps the  *)
(* function of an earlier render as long as deps are unchanged, and an     *)
(* effect whose deps changed has the cleanup of its earlier run called,    *)
(* with that run's functions, before it runs again.  A render and the      *)
(* effects of its commit are one step, taken before the next event is      *)
(* handled.  canvas.toBlob calls back later, in a task of its own.         *)

MaxClicks == 2      \* registerClick calls in a run
MaxUrls   == 2      \* URL.createObjectURL calls in a run
MaxOpens  == 2      \* clicks on the Share Result button in a run

\* the pixels of the grid a user clicks
GridPoints == RandX \X RandY

NoUrl == 0          \* shareImageUrl = null, shareImageBlob = null

\* lastClick = null
NullClick == [x |-> 0 - 1, y |-> 0 - 1, distance |-> 0 - 1, timestamp |-> 0]

\* useCallback(fn, deps) given the memo of the render before
useCallback(memo, fn, deps) ==
    IF memo.deps = deps THEN memo ELSE [fn |-> fn, deps |-> deps]

\* what a render of ClickFeedback sees: its state, the hook's, the context's
Rendering(b) ==
    [showShareModal |-> b.showShareModal,
     shareImageUrl |-> b.shareImageUrl,
     lastClick |-> b.lastClick,
     hasClicked |-> b.hasClicked]

\* GameContext.tsx lines 250-256 and 335-359, ClickFeedback.tsx lines 9-25:
\* the page after its first render, before any effect has run.
\* registerClick is the function of this render, where devMode is false.
FirstRender(devParam) ==
    [loaded |-> TRUE,
     devParam |-> devParam,
     effectsRun |-> FALSE,
     devMode |-> FALSE,
     registerClickMemo |-> [fn |-> [devMode |-> FALSE], deps |-> <<>>],
     lastClick |-> NullClick,
     hasClicked |-> FALSE,
     localStorage |-> [date \in Dates |-> NullClick],
     sent |-> <<>>,
     mounted |-> TRUE,
     showShareModal |-> FALSE,
     shareImageUrl |-> NoUrl,
     shareImageBlob |-> NoUrl,
     view |-> [showShareModal |-> FALSE, shareImageUrl |-> NoUrl,
               lastClick |-> NullClick, hasClicked |-> FALSE],
     canvas |-> FALSE,
     toBlob |-> <<>>,
     created |-> 0,
     revoked |-> {},
     opens |-> 0,
     generateCalls |-> 0]

\* state and view differ: React renders again before the next event
PendingRender ==
    browser.mounted /\ Rendering(browser) # browser.view

\* GameContext.tsx lines 259-279: the effects of the provider's mount set
\* devMode from the URL and read today's click from localStorage; the
\* render that follows keeps the memoized registerClick (deps [])
ProviderEffects ==
    /\ browser.loaded
    /\ ~browser.effectsRun
    /\ LET attemptData == browser.localStorage[clock]
       IN  browser' =
             [browser EXCEPT
                !.effectsRun = TRUE,
                !.devMode = browser.devParam,
                !.registerClickMemo =
                    useCallback(@, [devMode |-> browser.devParam], <<>>),
                !.lastClick = IF attemptData # NullClick
                              THEN attemptData ELSE @,
                !.hasClicked = IF attemptData # NullClick THEN TRUE ELSE @]
    /\ UNCHANGED <<clock, db, click, events, returned, tick>>

\* GameContext.tsx lines 335-359; the grid cannot be clicked under the
\* share modal, which covers the page (ShareModal.tsx line 110)
registerClick(x, y) ==
    /\ browser.loaded
    /\ browser.effectsRun
    /\ ~PendingRender
    /\ ~browser.showShareModal
    /\ Len(browser.sent) < MaxClicks
    /\ LET clickData == [x |-> x, y |-> y, distance |-> 0 - 1,
                         timestamp |-> clock]
           devMode == browser.registerClickMemo.fn.devMode
       IN  browser' =
             [browser EXCEPT
                !.lastClick = clickData,
                !.hasClicked = TRUE,
                !.localStorage = IF ~devMode
                                 THEN [@ EXCEPT ![clock] = clickData]
                                 ELSE @,
                !.sent = Append(@, <<x, y>>)]
    /\ UNCHANGED <<clock, db, click, events, returned, tick>>

\* URL.revokeObjectURL(url)
revokeObjectURL(b, url) == [b EXCEPT !.revoked = @ \cup {url}]

\* a state setter of the hook: nothing is stored once it has unmounted
setShareImage(b, url, blob) ==
    IF b.mounted
    THEN [b EXCEPT !.shareImageUrl = url, !.shareImageBlob = blob]
    ELSE b

\* useShareableImage.ts lines 15-21: clearImageData as created in a render
\* where the state was shareImageUrl
clearImageData(b, shareImageUrl) ==
    setShareImage(IF shareImageUrl # NoUrl
                  THEN revokeObjectURL(b, shareImageUrl)
                  ELSE b,
                  NoUrl, NoUrl)

\* useShareableImage.ts lines 23-101: generateImage as created in the
\* render r; with a click and a canvas it draws and calls canvas.toBlob,
\* whose callback holds the shareImageUrl of r
generateImage(b, r) ==
    IF r.lastClick = NullClick
    THEN clearImageData(b, r.shareImageUrl)
    ELSE IF ~b.canvas
    THEN b
    ELSE [b EXCEPT !.toBlob = Append(@, r.shareImageUrl),
                   !.generateCalls = @ + 1]

\* ClickFeedback.tsx lines 230-233: the Share Result button
OpenModal ==
    /\ browser.loaded
    /\ browser.mounted
    /\ ~PendingRender
    /\ browser.canvas
    /\ ~browser.showShareModal
    /\ browser.opens < MaxOpens
    /\ browser' = [browser EXCEPT !.showShareModal = TRUE,
                                  !.opens = @ + 1,
                                  !.generateCalls = 0]
    /\ UNCHANGED <<clock, db, click, events, returned, tick>>

\* ClickFeedback.tsx lines 216-220
handleCloseModal ==
    /\ browser.loaded
    /\ browser.mounted
    /\ ~PendingRender
    /\ browser.showShareModal
    /\ browser' = clearImageData([browser EXCEPT !.showShareModal = FALSE],
                                 browser.view.shareImageUrl)
    /\ UNCHANGED <<clock, db, click, events, returned, tick>>

\* a render of ClickFeedback and the effects of its commit:
\* ClickFeedback.tsx lines 60-62 and 242-246 (the canvas is in the tree when
\* there is a click), useShareableImage.ts lines 118-123 (the cleanup of the
\* effect's earlier run is called when clearImageData, deps [shareImageUrl],
\* is a new function), ClickFeedback.tsx lines 40-46 (generate on open)
Commit ==
    /\ browser.loaded
    /\ PendingRender
    /\ LET old == browser.view
           new == Rendering(browser)
           committed ==
               [browser EXCEPT
                  !.view = new,
                  !.canvas = new.hasClicked /\ new.lastClick # NullClick]
           cleaned ==
               IF new.shareImageUrl # old.shareImageUrl
               THEN clearImageData(committed, old.shareImageUrl)
               ELSE committed
           depsChanged ==
               \/ new.showShareModal # old.showShareModal
               \/ new.shareImageUrl # old.shareImageUrl
               \/ new.lastClick # old.lastClick
       IN  browser' =
             IF /\ depsChanged
                /\ new.showShareModal
                /\ new.shareImageUrl = NoUrl
                /\ new.lastClick # NullClick
             THEN generateImage(cleaned, new)
             ELSE cleaned
    /\ UNCHANGED <<clock, db, click, events, returned, tick>>

\* useShareableImage.ts lines 101-114: the callback of canvas.toBlob, with
\* a blob or with null
ToBlobCallback(blob) ==
    /\ browser.loaded
    /\ ~PendingRender
    /\ browser.toBlob # <<>>
    /\ browser.created < MaxUrls
    /\ LET shareImageUrl == Head(browser.toBlob)
           called == [browser EXCEPT !.toBlob = Tail(@)]
       IN  browser' =
             IF blob
             THEN LET newObjectUrl == called.created + 1
                      revoked == IF shareImageUrl # NoUrl
                                 THEN revokeObjectURL(called, shareImageUrl)
                                 ELSE called
                  IN  setShareImage([revoked EXCEPT !.created = newObjectUrl],
                                    newObjectUrl, newObjectUrl)
             ELSE clearImageData(called, shareImageUrl)
    /\ UNCHANGED <<clock, db, click, events, returned, tick>>

\* useShareableImage.ts lines 118-123: the component using the hook
\* unmounts, and the cleanup of the effect's last run is called
Unmount ==
    /\ browser.loaded
    /\ browser.mounted
    /\ ~PendingRender
    /\ browser' = [clearImageData(browser, browser.view.shareImageUrl)
                     EXCEPT !.mounted = FALSE]
    /\ UNCHANGED <<clock, db, click, events, returned, tick>>

InitClient ==
    /\ clock = 1
    /\ \E x \in RandX, y \in RandY : db = initDb(EmptyDb, 1, x, y)
    /\ click = [c \in Slots |-> IdleClick]
    /\ events = 0
    /\ returned = NoReturn
    /\ tick = IdleTick
    /\ \E devParam \in BOOLEAN : browser = FirstRender(devParam)

NextClient ==
    \/ ProviderEffects
    \/ \E p \in GridPoints : registerClick(p[1], p[2])
    \/ OpenModal
    \/ handleCloseModal
    \/ Commit
    \/ \E blob \in BOOLEAN : ToBlobCallback(blob)
    \/ Unmount
    \/ AdvanceDay

SpecClient == InitClient /\ [][NextClient]_vars

----------------------------------------------------------------------------
(* C35 *)

\* registerClick is called in this step
RegistersClick == Len(browser'.sent) = Len(browser.sent) + 1

\* C35: when dev mode is active registerClick does not write to
\* localStorage, when it is not active it writes the click under today's
\* key; in both cases it sets lastClick and hasClicked and sends the click
\* to the server.
C35_DevModeSkipsStorage ==
    [][RegistersClick
       => (/\ browser'.lastClick # NullClick
           /\ browser'.hasClicked
           /\ browser'.sent[Len(browser'.sent)]
                 = <<browser'.lastClick.x, browser'.lastClick.y>>
           /\ browser.devMode
                 => browser'.localStorage = browser.localStorage
           /\ ~browser.devMode
                 => browser'.localStorage =
                       [browser.localStorage EXCEPT
                           ![clock] = browser'.lastClick])]_vars

----------------------------------------------------------------------------
(* C36 *)

\* handleCloseModal, the caller of clearImageData, runs in this step
ModalCloses == browser.showShareModal /\ ~browser'.showShareModal

\* the component using the hook unmounts in this step
HookUnmounts == browser.mounted /\ ~browser'.mounted

\* a toBlob callback runs in this step
BlobArrives == Len(browser'.toBlob) < Len(browser.toBlob)

\* ... with a blob, of which it makes an object URL
ImageGenerated == BlobArrives /\ browser'.created = browser.created + 1

\* C36: when generateImage has succeeded, shareImageUrl and shareImageBlob
\* hold the generated image, and they stay as they are until clearImageData
\* is called by the hook's user, a later generateImage replaces them, or
\* the hook unmounts.
C36_ImageStaysSet ==
    [][/\ (ImageGenerated /\ browser.mounted)
          => (/\ browser'.shareImageUrl = browser'.created
              /\ browser'.shareImageBlob = browser'.created)
       /\ (/\ browser.shareImageUrl # NoUrl
           /\ \/ browser'.shareImageUrl # browser.shareImageUrl
              \/ browser'.shareImageBlob # browser.shareImageBlob)
          => (ModalCloses \/ BlobArrives \/ HookUnmounts)]_vars

----------------------------------------------------------------------------
(* C37 *)

\* the object URLs created and not revoked
Unrevoked(b) == (1..b.created) \ b.revoked

\* C37: the hook leaks no object URL.  An object URL that has not been
\* revoked is the image the hook holds, in its state or in the functions
\* of its last render; once the hook has unmounted and no toBlob callback
\* is outstanding, every URL it created has been revoked.  Nothing is
\* revoked that was not created, so revokeObjectURL is not called when no
\* image was generated.
C37_NoLeak ==
    /\ browser.revoked \subseteq 1..browser.created
    /\ browser.mounted
          => Unrevoked(browser) \subseteq
                {browser.shareImageUrl, browser.view.shareImageUrl}
    /\ (~browser.mounted /\ browser.toBlob = <<>>)
          => Unrevoked(browser) = {}

----------------------------------------------------------------------------
(* C38 *)

\* C38: each time the share modal is opened with a lastClick present,
\* generateImage is invoked exactly once: from the opening of the modal to
\* its closing there is at most one call.
C38_GenerateOncePerOpen ==
    browser.showShareModal => browser.generateCalls <= 1

====
